---------------------------- MODULE Spec2Model ----------------------------
(***************************************************************************)
(* The space-allocation and object-metadata catalog of src/fs.cc: an       *)
(* in-memory Allocator, a durable FreelistManager and the BLOBMD metadata  *)
(* records, all kept in one KeyValueDB.  The operations are the ones the   *)
(* driver (main) composes from allocate_space, save_metadata,              *)
(* load_metadata and delete_metadata; the driver never looks at what they  *)
(* return.  Allocator, FreelistManager and KeyValueDB are library code:    *)
(* they are modelled from their contracts.                                 *)
(***************************************************************************)
EXTENDS Integers, Sequences, FiniteSets, TLC

\* ------------------------------------------------------------ constants
MB == 1024 * 1024
SUPER_RESERVED == 8192
DISK_SIZE == 8 * MB
ALLOCATE_UNIT == 2 * MB

\* ---------------------------------------------------------------- bounds
\* object sizes: 0, and from one allocation unit to MaxSizeSteps megabytes
\* (main saves objects of 2 MB and of 4 MB)
MaxSizeSteps == 4
\* number of commits that fault injection makes fail
MaxFaults == 1
\* most extents in a FileMetadata given to the record codec
MaxExtents == 3
\* most deltas merged into the counter key
MaxDeltas == 3

\* object names, as main gives them
Names == {"f1", "f2"}
Sizes == {0} \cup {k * MB : k \in 2..MaxSizeSteps}

VARIABLES
  up,      \* a process holds the MetadataService open (between init and close)
  db,      \* the KeyValueDB: [super, metadata, freelist], durable
           \* (under SpecMerge: [stat], the PREFIX_STAT namespace)
  alloc,   \* the Allocator: [free, num_reserved], in memory
  meta,    \* main's FileMetadata: [name, size, extents]
  last,    \* what the last operation was and how its steps ended
  faults   \* commits made to fail so far

vars == <<up, db, alloc, meta, last, faults>>

\* ---------------------------------------------------------------- helpers
MAX(a, b) == IF a > b THEN a ELSE b
MIN(a, b) == IF a < b THEN a ELSE b
ROUND_UP_TO(n, d) == IF n % d = 0 THEN n ELSE n + d - (n % d)
P2ALIGN(n, d) == n - (n % d)

SetMin(S) == CHOOSE x \in S : \A y \in S : x <= y

\* the allocation units of the device, by starting offset
Blocks == {b * ALLOCATE_UNIT : b \in 0..((DISK_SIZE \div ALLOCATE_UNIT) - 1)}

\* the units an extent [offset, offset + length) touches
RangeBlocks(offset, length) ==
  {b \in Blocks : b + ALLOCATE_UNIT > offset /\ b < offset + length}

AllocExtent(o, l) == [offset |-> o, length |-> l]

RECURSIVE ExtentsLength(_)
ExtentsLength(extents) ==
  IF extents = <<>> THEN 0
  ELSE Head(extents).length + ExtentsLength(Tail(extents))

RECURSIVE ExtentsBlocks(_)
ExtentsBlocks(extents) ==
  IF extents = <<>> THEN {}
  ELSE RangeBlocks(Head(extents).offset, Head(extents).length)
         \cup ExtentsBlocks(Tail(extents))

\* ------------------------------------------------------------- Allocator
NoAlloc == [free |-> {}, num_reserved |-> 0]

get_free(a) == Cardinality(a.free) * ALLOCATE_UNIT

\* reserve(need): admission control, no extent search
reserve(a, need) ==
  IF need > get_free(a) - a.num_reserved
  THEN [ret |-> -1, alloc |-> a]
  ELSE [ret |-> 0, alloc |-> [a EXCEPT !.num_reserved = @ + need]]

\* the length of the free run that starts at unit b
RECURSIVE RunLength(_, _)
RunLength(free, b) ==
  IF b \in free THEN ALLOCATE_UNIT + RunLength(free, b + ALLOCATE_UNIT) ELSE 0

\* first fit from the hint in ascending order: extents of at most max_len,
\* whole units only, never more than want in total
RECURSIVE FirstFit(_, _, _, _)
FirstFit(free, want, unit, max_len) ==
  LET cand == {b \in free : RunLength(free, b) >= unit}
      b    == SetMin(cand)
      len  == MIN(RunLength(free, b), MIN(P2ALIGN(want, unit), P2ALIGN(max_len, unit)))
  IN IF cand = {} \/ want < unit \/ max_len < unit THEN <<>>
     ELSE <<AllocExtent(b, len)>>
            \o FirstFit(free \ RangeBlocks(b, len), want - len, unit, max_len)

\* allocate(want_size, alloc_unit, max_alloc_size, hint, &extents)
allocate(a, want_size, alloc_unit, max_alloc_size, hint) ==
  LET ext == FirstFit(a.free, want_size, alloc_unit, max_alloc_size)
      got == ExtentsLength(ext)
  IN [ret     |-> got,
      extents |-> ext,
      alloc   |-> [free         |-> a.free \ ExtentsBlocks(ext),
                   num_reserved |-> MAX(a.num_reserved - got, 0)]]

\* release(offset, length): the range must be allocated
\* a release that accepts any range
release_any(a, offset, length) == TRUE

release_ok(a, offset, length) == RangeBlocks(offset, length) \cap a.free = {}
release(a, offset, length) ==
  [a EXCEPT !.free = @ \cup RangeBlocks(offset, length)]

init_add_free(a, offset, length) ==
  [a EXCEPT !.free = @ \cup RangeBlocks(offset, length)]


\* ------------------------------------------------------------ KeyValueDB
PREFIX_SUPER == "S"
PREFIX_METADATA == "BLOBMD"

NoKeys == [k \in {} |-> <<>>]
EmptyDB == [super |-> NoKeys, metadata |-> NoKeys, freelist |-> {}]

\* the operations a transaction stages
T_set(prefix, key, value) ==
  [op |-> "set", prefix |-> prefix, key |-> key, value |-> value,
   offset |-> 0, length |-> 0]
T_rmkey(prefix, key) ==
  [op |-> "rmkey", prefix |-> prefix, key |-> key, value |-> <<>>,
   offset |-> 0, length |-> 0]
T_fm(op, offset, length) ==
  [op |-> op, prefix |-> "B", key |-> "", value |-> <<>>,
   offset |-> offset, length |-> length]

PutKey(f, key, value) ==
  [k \in DOMAIN f \cup {key} |-> IF k = key THEN value ELSE f[k]]
DelKey(f, key) == [k \in DOMAIN f \ {key} |-> f[k]]

\* ------------------------------------------------------- FreelistManager
\* create(size, granularity, t): the whole device is free
fm_create(size, granularity) == T_fm("fm_create", 0, size)
\* allocate(offset, length, t) / release(offset, length, t)
fm_allocate(offset, length) == T_fm("fm_allocate", offset, length)
fm_release(offset, length) == T_fm("fm_release", offset, length)

FreelistApply(free, o) ==
  CASE o.op = "fm_create"   -> RangeBlocks(0, o.length)
    [] o.op = "fm_allocate" -> free \ RangeBlocks(o.offset, o.length)
    [] o.op = "fm_release"  -> free \cup RangeBlocks(o.offset, o.length)
    [] OTHER                -> free

\* an allocation must cover free units only, a release allocated units only
FreelistOpOK(free, o) ==
  CASE o.op = "fm_allocate" -> RangeBlocks(o.offset, o.length) \subseteq free
    [] o.op = "fm_release"  -> RangeBlocks(o.offset, o.length) \cap free = {}
    [] OTHER                -> TRUE

\* whether every freelist operation staged in t is consistent with the
\* freelist as the operations staged before it in t leave it
RECURSIVE FreelistStageOK(_, _)
FreelistStageOK(free, t) ==
  IF t = <<>> THEN TRUE
  ELSE FreelistOpOK(free, Head(t))
       /\ FreelistStageOK(FreelistApply(free, Head(t)), Tail(t))

\* enumerate_reset, then enumerate_next until it returns false: the free
\* runs in ascending offset order
RECURSIVE enumerate(_)
enumerate(free) ==
  IF free = {} THEN <<>>
  ELSE LET b == SetMin(free)
           len == RunLength(free, b)
       IN <<AllocExtent(b, len)>> \o enumerate(free \ RangeBlocks(b, len))

\* ------------------------------------------------ KeyValueDB transactions
ApplyOp(d, o) ==
  CASE o.op = "set" /\ o.prefix = PREFIX_SUPER ->
         [d EXCEPT !.super = PutKey(@, o.key, o.value)]
    [] o.op = "set" /\ o.prefix = PREFIX_METADATA ->
         [d EXCEPT !.metadata = PutKey(@, o.key, o.value)]
    [] o.op = "rmkey" /\ o.prefix = PREFIX_METADATA ->
         [d EXCEPT !.metadata = DelKey(@, o.key)]
    [] OTHER -> [d EXCEPT !.freelist = FreelistApply(@, o)]

RECURSIVE ApplyAll(_, _)
ApplyAll(d, t) == IF t = <<>> THEN d ELSE ApplyAll(ApplyOp(d, Head(t)), Tail(t))

\* submit_transaction_sync(t): all of t or nothing
submit_transaction_sync(d, t, ok) ==
  IF ok THEN [ret |-> 0, db |-> ApplyAll(d, t)] ELSE [ret |-> -1, db |-> d]


\* ------------------------------------------------------- metadata record
\* ::encode(meta.size), ::encode(meta.extents.size()), then offset and
\* length of every extent: a sequence of 64-bit fields
RECURSIVE EncodeExtents(_)
EncodeExtents(extents) ==
  IF extents = <<>> THEN <<>>
  ELSE <<Head(extents).offset, Head(extents).length>>
         \o EncodeExtents(Tail(extents))

encode_metadata(m) == <<m.size, Len(m.extents)>> \o EncodeExtents(m.extents)

\* a decode that reads each pair as (length, offset)
RECURSIVE DecodeExtents_swapped(_, _, _)
DecodeExtents_swapped(value, p, len) ==
  IF len = 0 THEN <<>>
  ELSE <<AllocExtent(value[p + 1], value[p])>>
         \o DecodeExtents_swapped(value, p + 2, len - 1)

\* ::decode of len extents from position p of the value
RECURSIVE DecodeExtents(_, _, _)
DecodeExtents(value, p, len) ==
  IF len = 0 THEN <<>>
  ELSE <<AllocExtent(value[p], value[p + 1])>>
         \o DecodeExtents(value, p + 2, len - 1)

\* ----------------------------------------------------------------- fs.cc

\* int allocate_space(mds, meta, min_alloc_size = ALLOCATE_UNIT)
allocate_space(a, m) ==
  LET r  == reserve(a, m.size)
      al == allocate(r.alloc, m.size, ALLOCATE_UNIT, m.size, 0)
  IN IF r.ret < 0
     THEN [ret |-> -1, why |-> "reserve", alloc |-> r.alloc, meta |-> m]
     ELSE [ret   |-> IF al.ret # m.size THEN -1 ELSE 0,
           why   |-> IF al.ret # m.size THEN "short" ELSE "ok",
           alloc |-> al.alloc,
           meta  |-> [m EXCEPT !.extents = @ \o al.extents]]

\* the transaction save_metadata stages
RECURSIVE StageAllocate(_)
StageAllocate(extents) ==
  IF extents = <<>> THEN <<>>
  ELSE <<fm_allocate(Head(extents).offset, Head(extents).length)>>
         \o StageAllocate(Tail(extents))

\* save_metadata without the fm->allocate of line 151: the record is written,
\* its extents stay free in the freelist
save_metadata_unstaged(d, m, ok) ==
  LET t == <<T_set(PREFIX_METADATA, m.name, encode_metadata(m))>>
      r == submit_transaction_sync(d, t, ok)
  IN [ret |-> r.ret, db |-> r.db, fatal |-> FALSE,
      commit |-> IF ok THEN "ok" ELSE "fail"]

\* save_metadata with the fm->allocate calls committed in a transaction of
\* their own, ahead of the one that sets the record
save_metadata_two_txn(d, m, ok) ==
  LET t1 == StageAllocate(m.extents)
      t2 == <<T_set(PREFIX_METADATA, m.name, encode_metadata(m))>>
      r1 == submit_transaction_sync(d, t1, TRUE)
      r2 == submit_transaction_sync(r1.db, t2, ok)
  IN IF ~FreelistStageOK(d.freelist, t1)
     THEN [ret |-> -1, db |-> d, fatal |-> TRUE, commit |-> "na"]
     ELSE [ret |-> r2.ret, db |-> r2.db, fatal |-> FALSE,
           commit |-> IF ok THEN "ok" ELSE "fail"]

\* int save_metadata(mds, meta)
save_metadata(d, m, ok) ==
  LET t == StageAllocate(m.extents)
             \o <<T_set(PREFIX_METADATA, m.name, encode_metadata(m))>>
      r == submit_transaction_sync(d, t, ok)
  IN IF ~FreelistStageOK(d.freelist, t)
     THEN [ret |-> -1, db |-> d, fatal |-> TRUE, commit |-> "na"]
     ELSE [ret |-> r.ret, db |-> r.db, fatal |-> FALSE,
           commit |-> IF ok THEN "ok" ELSE "fail"]

\* load_metadata without the len == 0 test of lines 210-213
load_metadata_empty_ok(d, m) ==
  IF m.name \notin DOMAIN d.metadata
  THEN [ret |-> -2, meta |-> m]
  ELSE [ret |-> 0,
        meta |-> [m EXCEPT !.size = d.metadata[m.name][1],
                           !.extents = @ \o DecodeExtents(d.metadata[m.name], 3,
                                                          d.metadata[m.name][2])]]

\* int load_metadata(mds, meta)
load_metadata(d, m) ==
  IF m.name \notin DOMAIN d.metadata
  THEN [ret |-> -2, meta |-> m]    \* db->get: no such key
  ELSE LET value == d.metadata[m.name]
           m1    == [m EXCEPT !.size = value[1]]
           len   == value[2]
       IN IF len = 0
          THEN [ret |-> -1, meta |-> m1]
          ELSE [ret |-> 0,
                meta |-> [m1 EXCEPT !.extents = @ \o DecodeExtents(value, 3, len)]]

\* the loop of delete_metadata on the allocator: alloc->release of every
\* extent, in order
RECURSIVE ReleaseAll(_, _)
ReleaseAll(a, extents) ==
  IF extents = <<>> THEN [ok |-> TRUE, alloc |-> a]
  ELSE IF ~release_ok(a, Head(extents).offset, Head(extents).length)
       THEN [ok |-> FALSE, alloc |-> a]
       ELSE ReleaseAll(release(a, Head(extents).offset, Head(extents).length),
                       Tail(extents))

RECURSIVE StageRelease(_)
StageRelease(extents) ==
  IF extents = <<>> THEN <<>>
  ELSE <<fm_release(Head(extents).offset, Head(extents).length)>>
         \o StageRelease(Tail(extents))

\* delete_metadata without the fm->release of line 166: the key is removed,
\* its extents stay allocated in the freelist
delete_metadata_norelease(d, a, m, ok) ==
  LET t   == <<T_rmkey(PREFIX_METADATA, m.name)>>
      rel == ReleaseAll(a, m.extents)
      r   == submit_transaction_sync(d, t, ok)
  IN IF ~rel.ok
     THEN [ret |-> -1, db |-> d, alloc |-> rel.alloc, fatal |-> TRUE,
           commit |-> "na"]
     ELSE [ret |-> r.ret, db |-> r.db, alloc |-> rel.alloc, fatal |-> FALSE,
           commit |-> IF ok THEN "ok" ELSE "fail"]

\* delete_metadata with the rmkey submitted in a transaction of its own,
\* ahead of the one that releases the extents
delete_metadata_two_txn(d, a, m, ok) ==
  LET t1  == <<T_rmkey(PREFIX_METADATA, m.name)>>
      t2  == StageRelease(m.extents)
      rel == ReleaseAll(a, m.extents)
      r1  == submit_transaction_sync(d, t1, TRUE)
      r2  == submit_transaction_sync(r1.db, t2, ok)
  IN IF ~rel.ok \/ ~FreelistStageOK(d.freelist, t2)
     THEN [ret |-> -1, db |-> d, alloc |-> rel.alloc, fatal |-> TRUE,
           commit |-> "na"]
     ELSE [ret |-> r2.ret, db |-> r2.db, alloc |-> rel.alloc, fatal |-> FALSE,
           commit |-> IF ok THEN "ok" ELSE "fail"]

\* delete_metadata without the alloc->release of line 165
delete_metadata_keep_alloc(d, a, m, ok) ==
  LET t == <<T_rmkey(PREFIX_METADATA, m.name)>> \o StageRelease(m.extents)
      r == submit_transaction_sync(d, t, ok)
  IN IF ~FreelistStageOK(d.freelist, t)
     THEN [ret |-> -1, db |-> d, alloc |-> a, fatal |-> TRUE, commit |-> "na"]
     ELSE [ret |-> r.ret, db |-> r.db, alloc |-> a, fatal |-> FALSE,
           commit |-> IF ok THEN "ok" ELSE "fail"]

\* int delete_metadata(mds, meta)
delete_metadata(d, a, m, ok) ==
  LET t   == <<T_rmkey(PREFIX_METADATA, m.name)>> \o StageRelease(m.extents)
      rel == ReleaseAll(a, m.extents)
      r   == submit_transaction_sync(d, t, ok)
  IN IF ~rel.ok \/ ~FreelistStageOK(d.freelist, t)
     THEN [ret |-> -1, db |-> d, alloc |-> rel.alloc, fatal |-> TRUE,
           commit |-> "na"]
     ELSE [ret |-> r.ret, db |-> r.db, alloc |-> rel.alloc, fatal |-> FALSE,
           commit |-> IF ok THEN "ok" ELSE "fail"]

\* create_fm without the fm->allocate(0, reserved, t) of line 318
create_fm_noreserve(d, ok) ==
  LET t == <<T_set(PREFIX_SUPER, "freelist_type", "bitmap"),
             fm_create(DISK_SIZE, ALLOCATE_UNIT)>>
  IN submit_transaction_sync(d, t, ok)

\* FreelistManager *create_fm(db)
reserved == ROUND_UP_TO(MAX(SUPER_RESERVED, ALLOCATE_UNIT), ALLOCATE_UNIT)

create_fm(d, ok) ==
  LET t == <<T_set(PREFIX_SUPER, "freelist_type", "bitmap"),
             fm_create(DISK_SIZE, ALLOCATE_UNIT),
             fm_allocate(0, reserved)>>
  IN submit_transaction_sync(d, t, ok)

\* Allocator *init_allocator(fm)
RECURSIVE AddFree(_, _)
AddFree(a, runs) ==
  IF runs = <<>> THEN a
  ELSE AddFree(init_add_free(a, Head(runs).offset, Head(runs).length), Tail(runs))

\* init_allocator whose loop stops after the first enumerate_next
init_allocator_first_run(d) ==
  AddFree(NoAlloc, SubSeq(enumerate(d.freelist), 1, 1))

init_allocator(d) == AddFree(NoAlloc, enumerate(d.freelist))


\* ------------------------------------------------------------- the driver
NoName == ""
NoMeta == [name |-> NoName, size |-> 0, extents |-> <<>>]

Last(op, why, commit, ret, fatal) ==
  [op |-> op, alloc |-> why, commit |-> commit, ret |-> ret, fatal |-> fatal]

\* fault injection: the commit of this operation fails when ok is FALSE
Inject(ok, commit) ==
  /\ ok \/ faults < MaxFaults
  /\ faults' = IF commit = "fail" THEN faults + 1 ELSE faults

Init ==
  /\ up = FALSE
  /\ db = EmptyDB
  /\ alloc = NoAlloc
  /\ meta = NoMeta
  /\ last = Last("none", "na", "na", 0, FALSE)
  /\ faults = 0

\* main with "create", run on a new store: mds.create(); mds.close().  When
\* the commit of create_fm fails, create_fm returns nullptr and the process
\* ends in init_allocator; nothing was written.
mds_create(ok) ==
  /\ ~up
  /\ Inject(ok, IF ok THEN "ok" ELSE "fail")
  /\ db.super = NoKeys
  /\ db' = create_fm(db, ok).db
  /\ up' = FALSE
  /\ alloc' = NoAlloc
  /\ meta' = NoMeta
  /\ last' = Last("create", "na", IF ok THEN "ok" ELSE "fail",
                  create_fm(db, ok).ret, ~ok)

\* mds.init() of a new process: db and freelist reopened, allocator rebuilt.
\* (main declares FileMetadata meta without an initial size; no operation
\* below reads meta.size before setting it.)
mds_init ==
  /\ ~up
  /\ db.super # NoKeys
  /\ up' = TRUE
  /\ alloc' = init_allocator(db)
  /\ meta' = NoMeta
  /\ last' = Last("init", "na", "na", 0, FALSE)
  /\ UNCHANGED <<db, faults>>

\* mds.close()
mds_close ==
  /\ up
  /\ up' = FALSE
  /\ alloc' = NoAlloc
  /\ meta' = NoMeta
  /\ last' = Last("close", "na", "na", 0, FALSE)
  /\ UNCHANGED <<db, faults>>

\* main: meta.name = n; meta.size = s; meta.extents.clear();
\*       allocate_space(mds, meta); save_metadata(mds, meta);
\* main does not test what allocate_space returns.  A ConsistencyViolation
\* while staging ends the process.  (\E over a one-element set: the call is
\* evaluated once.)
Save(n, s, ok) ==
  /\ up
  /\ \E a \in {allocate_space(alloc, [name |-> n, size |-> s, extents |-> <<>>])} :
     \E sv \in {save_metadata(db, a.meta, ok)} :
     /\ Inject(ok, sv.commit)
     /\ db' = sv.db
     /\ up' = ~sv.fatal
     /\ alloc' = IF sv.fatal THEN NoAlloc ELSE a.alloc
     /\ meta' = IF sv.fatal THEN NoMeta ELSE a.meta
     /\ last' = Last("save", a.why, sv.commit, sv.ret, sv.fatal)

\* main: meta.name = n; meta.extents.clear(); load_metadata(mds, meta);
\*       delete_metadata(mds, meta);
Delete(n, ok) ==
  /\ up
  /\ \E ld \in {load_metadata(db, [meta EXCEPT !.name = n, !.extents = <<>>])} :
     \E dl \in {delete_metadata(db, alloc, ld.meta, ok)} :
     /\ Inject(ok, dl.commit)
     /\ db' = dl.db
     /\ up' = ~dl.fatal
     /\ alloc' = IF dl.fatal THEN NoAlloc ELSE dl.alloc
     /\ meta' = IF dl.fatal THEN NoMeta ELSE ld.meta
     /\ last' = Last("delete", IF ld.ret = 0 THEN "loaded" ELSE "notloaded",
                     dl.commit, dl.ret, dl.fatal)

\* main: meta.size = 0; meta.extents.clear(); load_metadata(mds, meta);
Load(n) ==
  /\ up
  /\ \E ld \in {load_metadata(db, [name |-> n, size |-> 0, extents |-> <<>>])} :
     /\ meta' = ld.meta
     /\ last' = Last("load", "na", "na", ld.ret, FALSE)
     /\ UNCHANGED <<up, db, alloc, faults>>

Next ==
  \/ \E ok \in BOOLEAN : mds_create(ok)
  \/ mds_init
  \/ mds_close
  \/ \E n \in Names, s \in Sizes, ok \in BOOLEAN : Save(n, s, ok)
  \/ \E n \in Names, ok \in BOOLEAN : Delete(n, ok)
  \/ \E n \in Names : Load(n)

Spec == Init /\ [][Next]_vars


\* ------------------------------------------------------------ properties
Created == db.super # NoKeys
Live == DOMAIN db.metadata
RecordSize(n) == db.metadata[n][1]
RecordExtents(n) == DecodeExtents(db.metadata[n], 3, db.metadata[n][2])

RecordLength(n) == ExtentsLength(RecordExtents(n))
RecordRounded(n) == ROUND_UP_TO(RecordSize(n), ALLOCATE_UNIT)

RECURSIVE SumLength(_)
SumLength(S) ==
  IF S = {} THEN 0
  ELSE LET x == CHOOSE y \in S : TRUE IN RecordLength(x) + SumLength(S \ {x})

RECURSIVE SumRounded(_)
SumRounded(S) ==
  IF S = {} THEN 0
  ELSE LET x == CHOOSE y \in S : TRUE IN RecordRounded(x) + SumRounded(S \ {x})

FreelistBytes == Cardinality(db.freelist) * ALLOCATE_UNIT

\* C1: in every durable state after create, the freelist's free bytes plus
\* the extent lengths of all live records plus the reserved head equal the
\* device capacity.
C1_DurableAccounting ==
  Created => FreelistBytes + SumLength(Live) + reserved = DISK_SIZE

\* C2: no offset is claimed by the extents of two live records, and no
\* offset is both in a live record's extents and free in the freelist.
C2_NoOverlap ==
  /\ \A n1, n2 \in Live :
       n1 # n2 => ExtentsBlocks(RecordExtents(n1))
                    \cap ExtentsBlocks(RecordExtents(n2)) = {}
  /\ \A n \in Live : ExtentsBlocks(RecordExtents(n)) \cap db.freelist = {}

C2_Witness ==
  /\ faults > 0
  /\ last.op = "save" /\ last.commit = "ok"
  /\ Cardinality(Live) = 2
  /\ \A n \in Live : RecordExtents(n) # <<>>


\* C3: delete removes the key and releases the extents in one transaction:
\* after a delete, the record is never absent while the freelist still marks
\* the extents it held allocated, and after a failed commit the key still
\* resolves to the original extents.
C3_DeleteAtomic ==
  (last.op = "delete" /\ ~last.fatal) =>
    /\ meta.name \notin Live => ExtentsBlocks(meta.extents) \subseteq db.freelist
    /\ (last.commit = "fail" /\ last.alloc = "loaded") =>
         /\ meta.name \in Live
         /\ RecordExtents(meta.name) = meta.extents
         /\ RecordSize(meta.name) = meta.size

C3_Witness ==
  /\ last.op = "delete" /\ last.commit = "fail" /\ last.alloc = "loaded"
  /\ Len(meta.extents) > 1

\* C4: a save or a delete whose submit_transaction_sync fails leaves the
\* durable state (freelist and metadata records) as it was before.
C4_FailedCommitKeepsDurable ==
  [][(last'.op \in {"save", "delete"} /\ last'.commit = "fail") => db' = db]_vars

C4_Witness ==
  /\ last.op = "save" /\ last.commit = "fail" /\ last.alloc = "ok"
  /\ meta.extents # <<>>

\* C5: after every completed save or delete, get_free() plus the reserved
\* head plus the live object sizes rounded up to the allocation unit equal
\* the capacity.
C5_AllocatorAccounting ==
  (up /\ last.op \in {"save", "delete"}) =>
    get_free(alloc) + reserved + SumRounded(Live) = DISK_SIZE

\* C6: a save whose commit fails leaves the allocator's free set and free
\* byte count as they were before the save.
C6_SaveFailKeepsAllocator ==
  [][(last'.op = "save" /\ last'.commit = "fail") =>
       (alloc'.free = alloc.free /\ get_free(alloc') = get_free(alloc))]_vars

\* C7: a delete whose commit fails makes no extent of the object free in
\* the allocator.
C7_DeleteFailKeepsAllocator ==
  (last.op = "delete" /\ last.commit = "fail") =>
    ExtentsBlocks(meta.extents) \cap alloc.free = {}

\* load(name): main's load of a name into a cleared FileMetadata
load(n) == load_metadata(db, [name |-> n, size |-> 0, extents |-> <<>>])

\* C8: a successful save followed by load returns the size and the extents
\* saved, of total length at least size and a multiple of the allocation
\* unit; load of a name with no record returns NotFound.
C8_SaveLoadRoundTrip ==
  /\ (last.op = "save" /\ last.alloc = "ok" /\ last.commit = "ok") =>
       /\ load(meta.name).ret = 0
       /\ load(meta.name).meta.size = meta.size
       /\ load(meta.name).meta.extents = meta.extents
       /\ ExtentsLength(load(meta.name).meta.extents) >= meta.size
       /\ ExtentsLength(load(meta.name).meta.extents) % ALLOCATE_UNIT = 0
  /\ \A n \in Names \ Live : load(n).ret = -2

\* C9: a save whose allocation comes back short is rolled back: the extents
\* obtained are free again, get_free() is what it was before the save, and
\* no metadata record is written.
C9_ShortAllocationRolledBack ==
  [][(last'.op = "save" /\ last'.alloc = "short") =>
       /\ get_free(alloc') = get_free(alloc)
       /\ ExtentsBlocks(meta'.extents) \subseteq alloc'.free
       /\ db'.metadata = db.metadata]_vars

\* C10: a save whose reserve fails submits no transaction and leaves the
\* allocator, the reservation counter and the durable state unchanged.
C10_ReserveFailsFast ==
  [][(last'.op = "save" /\ last'.alloc = "reserve") =>
       /\ last'.commit = "na"
       /\ meta'.extents = <<>>
       /\ alloc' = alloc
       /\ db' = db]_vars


\* whether the extents of a list are pairwise disjoint
Disjoint(extents) ==
  \A i, j \in 1..Len(extents) :
    i # j => RangeBlocks(extents[i].offset, extents[i].length)
               \cap RangeBlocks(extents[j].offset, extents[j].length) = {}

\* C11: every durably visible record has pairwise disjoint extents whose
\* summed length is at least the record's size: no partial extent list.
C11_NoPartialRecord ==
  \A n \in Live : Disjoint(RecordExtents(n)) /\ RecordLength(n) >= RecordSize(n)

\* C12: after a restart the allocator holds exactly the durable free runs:
\* its free set is the freelist's, get_free() the freelist's byte total,
\* whatever the allocator of the process before held.
C12_AllocatorRebuilt ==
  last.op = "init" =>
    /\ alloc.free = db.freelist
    /\ get_free(alloc) = FreelistBytes
    /\ alloc.num_reserved = 0

\* a restart after a failed commit, with two separate free runs to replay
C12_Witness ==
  /\ last.op = "init" /\ faults > 0
  /\ Len(enumerate(db.freelist)) = 2

EnumeratedOnce(free) ==
  LET e == enumerate(free)
  IN /\ \A i \in 1..(Len(e) - 1) : e[i].offset < e[i + 1].offset
     /\ Disjoint(e)
     /\ ExtentsBlocks(e) = free
     /\ ExtentsLength(e) = Cardinality(free) * ALLOCATE_UNIT

Runs ==
  {AllocExtent(o, l) : o \in Blocks \ RangeBlocks(0, reserved),
                       l \in {k * ALLOCATE_UNIT :
                              k \in 1..((DISK_SIZE - reserved) \div ALLOCATE_UNIT)}}

\* every ordered list of at most MaxExtents pairwise disjoint runs that end
\* within the device
ExtentLists ==
  {e \in UNION {[1..k -> Runs] : k \in 0..MaxExtents} :
     /\ Disjoint(e)
     /\ \A i \in 1..Len(e) : e[i].offset + e[i].length <= DISK_SIZE}

\* a new store, opened, and a FileMetadata filled with any size and any
\* list of disjoint extents rather than by allocate_space
InitCodec ==
  /\ up = TRUE
  /\ db = create_fm(EmptyDB, TRUE).db
  /\ alloc = init_allocator(create_fm(EmptyDB, TRUE).db)
  /\ meta \in [name : Names, size : Sizes, extents : ExtentLists]
  /\ last = Last("input", "na", "na", 0, FALSE)
  /\ faults = 0

\* save_metadata(mds, meta) of the FileMetadata as given
CodecSave ==
  /\ up
  /\ last.op = "input"
  /\ \E sv \in {save_metadata(db, meta, TRUE)} :
     /\ db' = sv.db
     /\ last' = Last("encode", "na", sv.commit, sv.ret, sv.fatal)
  /\ UNCHANGED <<up, alloc, meta, faults>>

NextCodec ==
  \/ CodecSave
  \/ \E n \in Names : Load(n)

SpecCodec == InitCodec /\ [][NextCodec]_vars

main_init ==
  /\ meta = NoMeta
  /\ mds_init

\* lines 430-433
main_save_f1(ok) ==
  /\ last.op = "init" /\ meta = NoMeta
  /\ Save("f1", 2 * MB, ok)

\* lines 435-438
main_save_f2(ok) ==
  /\ last.op = "save" /\ meta.name = "f1"
  /\ Save("f2", 2 * MB, ok)

\* lines 440-443
main_delete_f1(ok) ==
  /\ last.op = "save" /\ meta.name = "f2"
  /\ Delete("f1", ok)

\* lines 445-449
main_save_f3(ok) ==
  /\ last.op = "delete"
  /\ Save("f3", 4 * MB, ok)

\* mds.close() of line 451: meta keeps the name "f3"
main_close ==
  /\ up
  /\ last.op = "save" /\ meta.name = "f3"
  /\ up' = FALSE
  /\ alloc' = NoAlloc
  /\ last' = Last("close", "na", "na", 0, FALSE)
  /\ UNCHANGED <<db, meta, faults>>

\* lines 452-455: meta.size = 0; meta.extents.clear(); mds.init();
\* load_metadata(mds, meta)
main_reload ==
  /\ ~up
  /\ last.op = "close" /\ meta.name = "f3"
  /\ up' = TRUE
  /\ alloc' = init_allocator(db)
  /\ meta' = load_metadata(db, [meta EXCEPT !.size = 0, !.extents = <<>>]).meta
  /\ last' = Last("load", "na", "na",
                  load_metadata(db, [meta EXCEPT !.size = 0,
                                                 !.extents = <<>>]).ret, FALSE)
  /\ UNCHANGED <<db, faults>>

\* mds.close() of line 456 and the end of the process
main_exit ==
  /\ last.op = "load"
  /\ mds_close

NextMain ==
  \/ \E ok \in BOOLEAN : mds_create(ok)
  \/ main_init
  \/ \E ok \in BOOLEAN : main_save_f1(ok)
  \/ \E ok \in BOOLEAN : main_save_f2(ok)
  \/ \E ok \in BOOLEAN : main_delete_f1(ok)
  \/ \E ok \in BOOLEAN : main_save_f3(ok)
  \/ main_close
  \/ main_reload
  \/ main_exit

SpecMain == Init /\ [][NextMain]_vars

\* C13: on a new 8 MiB device with 2 MiB units and a 2 MiB reserved head,
\* main's sequence with every commit succeeding puts f1 at 2 MiB and f2 at
\* 4 MiB, frees 2 MiB with the delete of f1, and saves f3 (4 MiB) on the
\* freed run and the remaining free run; get_free() is then the capacity
\* less the head and the sizes of f2 and f3.
C13_MainSequence ==
  [][(faults' = 0 /\ "f3" \notin DOMAIN db.metadata) =>
       /\ (last'.op = "save" /\ meta'.name = "f1")
            => /\ meta'.extents = <<AllocExtent(2 * MB, 2 * MB)>>
               /\ db'.metadata["f1"] = encode_metadata(meta')
       /\ (last'.op = "save" /\ meta'.name = "f2")
            => /\ meta'.extents = <<AllocExtent(4 * MB, 2 * MB)>>
               /\ db'.metadata["f2"] = encode_metadata(meta')
       /\ last'.op = "delete"
            => /\ "f1" \notin DOMAIN db'.metadata
               /\ get_free(alloc') = get_free(alloc) + 2 * MB
               /\ db'.freelist = db.freelist \cup RangeBlocks(2 * MB, 2 * MB)
       /\ (last'.op = "save" /\ meta'.name = "f3")
            => /\ last'.alloc = "ok" /\ last'.ret = 0
               /\ meta'.extents = <<AllocExtent(2 * MB, 2 * MB),
                                    AllocExtent(6 * MB, 2 * MB)>>
               /\ db'.metadata["f3"] = encode_metadata(meta')
               /\ get_free(alloc')
                    = DISK_SIZE - reserved - db'.metadata["f2"][1]
                        - db'.metadata["f3"][1]]_vars

\* f3 was saved on the first run of main, no commit having failed
C13_Witness ==
  /\ faults = 0
  /\ last.op = "save" /\ last.alloc = "ok" /\ meta.name = "f3"
  /\ Live = {"f2", "f3"}
  /\ RecordExtents("f2") = <<AllocExtent(4 * MB, 2 * MB)>>
  /\ get_free(alloc) = 0

\* ------------------------------------------- _Int64ArrayMergeOperator
\* Buffers are sequences of bytes.  An __le64 is 8 bytes, least significant
\* first; lv[i] + rv[i] is the byte-wise sum with carry, the carry out of
\* the eighth byte dropped (unsigned wrap-around at 2^64).

PREFIX_STAT == "T"

\* the key the deltas are merged into
StatKey == "counter"

RECURSIVE AddBytes(_, _, _)
AddBytes(lv, rv, carry) ==
  IF lv = <<>> THEN <<>>
  ELSE <<(lv[1] + rv[1] + carry) % 256>>
         \o AddBytes(Tail(lv), Tail(rv), (lv[1] + rv[1] + carry) \div 256)

\* the i-th __le64 of a buffer, i from 0
Elem(data, i) == SubSeq(data, 8 * i + 1, 8 * i + 8)

\* the loop of merge: nv[i] = lv[i] + rv[i] for i < n
RECURSIVE SumElems(_, _, _, _)
SumElems(ldata, rdata, i, n) ==
  IF i >= n THEN <<>>
  ELSE AddBytes(Elem(ldata, i), Elem(rdata, i), 0)
         \o SumElems(ldata, rdata, i + 1, n)

merge_nonexistent(rdata) == rdata

\* merge with nv[i] = lv[i]: the operand is dropped
merge_keep_left(ldata, rdata) ==
  IF Len(ldata) # Len(rdata) \/ Len(rdata) % 8 # 0 \/ Len(rdata) = 0
  THEN [fatal |-> TRUE, value |-> <<>>]
  ELSE [fatal |-> FALSE, value |-> ldata]

\* merge without assert((rlen % 8) == 0): resize(rlen) leaves NUL bytes
\* behind the rlen >> 3 elements summed
merge_no_width_assert(ldata, rdata) ==
  IF Len(ldata) # Len(rdata) \/ Len(rdata) = 0
  THEN [fatal |-> TRUE, value |-> <<>>]
  ELSE [fatal |-> FALSE,
        value |-> SumElems(ldata, rdata, 0, Len(rdata) \div 8)
                    \o [i \in 1..(Len(rdata) % 8) |-> 0]]

\* merge(ldata, llen, rdata, rlen, new_value).  A failed assert ends the
\* process; so does new_value->at(0) on the empty string that resize(0)
\* leaves (std::out_of_range, not caught).
merge(ldata, rdata) ==
  IF Len(ldata) # Len(rdata) THEN [fatal |-> TRUE, value |-> <<>>]
  ELSE IF Len(rdata) % 8 # 0 THEN [fatal |-> TRUE, value |-> <<>>]
  ELSE IF Len(rdata) = 0 THEN [fatal |-> TRUE, value |-> <<>>]
  ELSE [fatal |-> FALSE,
        value |-> SumElems(ldata, rdata, 0, Len(rdata) \div 8)]

\* the store applying one merge operand to a key of PREFIX_STAT
KVMerge(stat, key, rdata) ==
  IF key \notin DOMAIN stat
  THEN [fatal |-> FALSE, stat |-> PutKey(stat, key, merge_nonexistent(rdata))]
  ELSE IF merge(stat[key], rdata).fatal
       THEN [fatal |-> TRUE, stat |-> stat]
       ELSE [fatal |-> FALSE,
             stat |-> PutKey(stat, key, merge(stat[key], rdata).value)]

\* an __le64 holding n, for 0 <= n < 2^24
LE64(n) ==
  [i \in 1..8 |-> IF i = 1 THEN n % 256
                  ELSE IF i = 2 THEN (n \div 256) % 256
                  ELSE IF i = 3 THEN (n \div 65536) % 256
                  ELSE 0]

\* the __le64 elements deltas are made of: 1, 255, and 2^64 - 1
DeltaElems == {LE64(1), LE64(255), [i \in 1..8 |-> 255]}

\* the operands: of no, one and two elements, and two of a length that is
\* not a multiple of 8
Deltas ==
  {<<>>} \cup DeltaElems \cup {a \o b : a, b \in DeltaElems}
    \cup {SubSeq(LE64(1), 1, 4), LE64(1) \o SubSeq(LE64(255), 1, 4)}

MergeLast(op, fatal, deltas) ==
  [op |-> op, alloc |-> "na", commit |-> "na", ret |-> 0, fatal |-> fatal,
   deltas |-> deltas]

\* a store with merge_op set on PREFIX_STAT and no key yet; db is that
\* namespace alone, last.deltas the operands merged so far
InitMerge ==
  /\ up = TRUE
  /\ db = [stat |-> NoKeys]
  /\ alloc = NoAlloc
  /\ meta = NoMeta
  /\ last = MergeLast("none", FALSE, <<>>)
  /\ faults = 0

\* a merge operand arrives for a key that does not exist
StoreMergeNonexistent(rdata) ==
  /\ up
  /\ Len(last.deltas) < MaxDeltas
  /\ StatKey \notin DOMAIN db.stat
  /\ db' = [db EXCEPT !.stat = KVMerge(db.stat, StatKey, rdata).stat]
  /\ last' = MergeLast("merge_nonexistent", FALSE, Append(last.deltas, rdata))
  /\ UNCHANGED <<up, alloc, meta, faults>>

\* a merge operand arrives for a key that has a value
StoreMerge(rdata) ==
  /\ up
  /\ Len(last.deltas) < MaxDeltas
  /\ StatKey \in DOMAIN db.stat
  /\ \E r \in {KVMerge(db.stat, StatKey, rdata)} :
     /\ db' = [db EXCEPT !.stat = r.stat]
     /\ up' = ~r.fatal
     /\ last' = MergeLast("merge", r.fatal, Append(last.deltas, rdata))
  /\ UNCHANGED <<alloc, meta, faults>>

NextMerge ==
  \/ \E rdata \in Deltas : StoreMergeNonexistent(rdata)
  \/ \E rdata \in Deltas : StoreMerge(rdata)

SpecMerge == InitMerge /\ [][NextMerge]_vars

\* an element whose value, read as a signed 64-bit integer, lies in
\* -2^24 .. 2^24 - 1, and that value
SmallElem(e) ==
  (\A i \in 4..8 : e[i] = 0) \/ (\A i \in 4..8 : e[i] = 255)
ElemValue(e) ==
  e[1] + 256 * e[2] + 65536 * e[3] - (IF e[8] = 255 THEN 16777216 ELSE 0)

\* C14: merge of an existing value and an operand of equal length, a
\* multiple of 8, gives a value of that length whose i-th element is the sum
\* of the two i-th elements modulo 2^64; merge on a nonexistent key stores
\* the operand as it is.
C14_MergeSums ==
  [][/\ last'.op = "merge_nonexistent"
          => db'.stat[StatKey] = last'.deltas[Len(last'.deltas)]
     /\ (/\ last'.op = "merge"
         /\ Len(db.stat[StatKey]) = Len(last'.deltas[Len(last'.deltas)])
         /\ Len(db.stat[StatKey]) % 8 = 0)
          => /\ ~last'.fatal
             /\ Len(db'.stat[StatKey]) = Len(db.stat[StatKey])
             /\ \A i \in 0..((Len(db.stat[StatKey]) \div 8) - 1) :
                  /\ SmallElem(Elem(db'.stat[StatKey], i))
                  /\ ElemValue(Elem(db'.stat[StatKey], i))
                       = ElemValue(Elem(db.stat[StatKey], i))
                           + ElemValue(Elem(last'.deltas[Len(last'.deltas)], i))
    ]_vars

\* the outcome of merging a sequence of deltas into a nonexistent key
RECURSIVE Replay(_, _)
Replay(st, deltas) ==
  IF deltas = <<>> \/ st.fatal THEN st
  ELSE Replay(KVMerge(st.stat, StatKey, Head(deltas)), Tail(deltas))

Perms(n) ==
  {p \in [1..n -> 1..n] : \A i, j \in 1..n : i # j => p[i] # p[j]}

\* the value of the key, or that the process died merging
Outcome(st) == IF st.fatal THEN [fatal |-> TRUE, stat |-> NoKeys] ELSE st

\* C15: the deltas merged so far being of one length, merging them in any
\* other order, whichever of them seeds the key, ends with the same value
\* (or, for a length that cannot be merged, with the same fatal end).
C15_OrderIndependent ==
  (\A i, j \in 1..Len(last.deltas) :
      Len(last.deltas[i]) = Len(last.deltas[j]))
  => \A p \in Perms(Len(last.deltas)) :
       Outcome(Replay([fatal |-> FALSE, stat |-> NoKeys],
                      [i \in 1..Len(last.deltas) |-> last.deltas[p[i]]]))
         = Outcome([fatal |-> last.fatal, stat |-> db.stat])

\* three deltas of two elements, not all alike, were merged
C15_Witness ==
  /\ Len(last.deltas) = 3 /\ ~last.fatal
  /\ Len(last.deltas[1]) = 16
  /\ last.deltas[1] # last.deltas[2] /\ last.deltas[2] # last.deltas[3]
  /\ Elem(db.stat[StatKey], 0) # Elem(db.stat[StatKey], 1)

\* C16: a merge of buffers of different lengths, or of a length that is not
\* a multiple of 8, is fatal and stores nothing, also when the existing
\* value is one merge_nonexistent stored with such a length.
C16_CorruptRecordFatal ==
  [][(/\ last'.op = "merge"
      /\ \/ Len(db.stat[StatKey]) # Len(last'.deltas[Len(last'.deltas)])
         \/ Len(last'.deltas[Len(last'.deltas)]) % 8 # 0)
       => (last'.fatal /\ ~up' /\ db' = db)]_vars

\* a 4-byte operand met the 4-byte value merge_nonexistent had stored
C16_Witness ==
  /\ last.op = "merge" /\ last.fatal
  /\ Len(last.deltas) = 2
  /\ Len(last.deltas[1]) = 4 /\ Len(last.deltas[2]) = 4
  /\ db.stat[StatKey] = last.deltas[1]

\* ------------------------------------------------ records and allocator

\* the units behind the reserved head that the freelist holds allocated
\* and no live record's extents cover
Orphans ==
  ((Blocks \ RangeBlocks(0, reserved)) \ db.freelist)
    \ UNION {ExtentsBlocks(RecordExtents(n)) : n \in Live}

\* C21: a save for a name that has a live record leaves that record as it
\* is, and no unit stays allocated in the freelist with no record's extents
\* covering it.
C21_NoInPlaceMutation ==
  [][/\ (last'.op = "save" /\ meta'.name \in DOMAIN db.metadata)
          => db'.metadata[meta'.name] = db.metadata[meta'.name]
     /\ (db.super # NoKeys /\ Orphans = {}) => Orphans' = {}]_vars

C23_AllocatorMirrorsFreelist ==
  [][/\ last'.op = "init" => alloc'.free = db'.freelist
     /\ (/\ last'.op \in {"save", "delete"} /\ last'.commit = "ok"
         /\ alloc.free = db.freelist)
          => alloc'.free = db'.freelist]_vars

\* a committed delete that released extents, no commit having failed
C23_Witness ==
  /\ last.op = "delete" /\ last.commit = "ok" /\ faults = 0
  /\ meta.extents # <<>>
  /\ alloc.free = db.freelist
  /\ Live # {}

\* C24: after every completed save, however it ended, the allocator's
\* count of reserved bytes is zero.
C24_ReservationReturned ==
  (last.op = "save" /\ ~last.fatal) => alloc.num_reserved = 0

\* C26: load_metadata returns -1 for a record whose extent count is 0, with
\* meta.size set to the record's size and no extent read; an object saved
\* with size 0 has such a record, so loading it back returns -1.
C26_EmptyRecordNotLoaded ==
  /\ \A n \in Live :
       db.metadata[n][2] = 0 =>
         /\ load(n).ret = -1
         /\ load(n).meta.size = db.metadata[n][1]
         /\ load(n).meta.extents = <<>>
  /\ (last.op = "save" /\ last.commit = "ok" /\ meta.size = 0) =>
       /\ meta.extents = <<>>
       /\ db.metadata[meta.name] = <<0, 0>>
       /\ load(meta.name).ret = -1
  /\ (last.op = "load" /\ last.ret = -1) =>
       /\ meta.name \in Live
       /\ db.metadata[meta.name][2] = 0
       /\ meta.size = db.metadata[meta.name][1]
       /\ meta.extents = <<>>

\* a load that returned -1 and left a size other than the 0 main had set
C26_Witness ==
  /\ last.op = "load" /\ last.ret = -1
  /\ meta.size > 0

\* ------------------------------------------------- BloomHitSet::Params
\* A double is held as a decimal [m, e], the value m * 10^e; probabilities
\* are whole millionths, [m, -6].  The bufferlist is the sequence of the
\* fields encoded, behind struct_v and compat of ENCODE_START(1, 1, bl).

\* false_positive, in millionths: 0, one millionth, the default 0.05, the
\* largest uint16_t and the first value above it, 0.5 and 1
FppMicros == {0, 1, 10, 50000, 65535, 65536, 500000, 1000000}
TargetSizes == {0, 1, 1000}
Seeds == {0, 1, 7}

RECURSIVE Pow10(_)
Pow10(k) == IF k = 0 THEN 1 ELSE 10 * Pow10(k - 1)

\* x * 1000000.0
TimesMillion(x) == [m |-> x.m, e |-> x.e + 6]

\* the integer part of a decimal with e <= 0
Trunc(x) == x.m \div Pow10(0 - x.e)

\* static_cast<uint16_t> of a double: the integer part when uint16_t can
\* hold it; otherwise the conversion is undefined, and a build gives the
\* low 16 bits, the largest value or 0
CastUint16(x) ==
  IF Trunc(x) < 65536 THEN {Trunc(x)}
  ELSE {Trunc(x) % 65536, 65535, 0}

\* void encode(bufferlist& bl) const: every bufferlist a build can produce
Params_encode(p) ==
  {<<1, 1, fpp_micro, p.target_size, p.seed>> :
     fpp_micro \in CastUint16(TimesMillion(p.false_positive))}

\* void decode(bufferlist::iterator& bl)
Params_decode(bl) ==
  [false_positive |-> TimesMillion([m |-> bl[3], e |-> 0]),
   target_size    |-> bl[4],
   seed           |-> bl[5]]

\* a Params(fpp, t, s) with any probability of FppMicros
InitHitSet ==
  /\ up = TRUE
  /\ db = [bl |-> <<>>]
  /\ alloc = NoAlloc
  /\ meta \in [false_positive : {[m |-> f, e |-> -6] : f \in FppMicros},
               target_size : TargetSizes, seed : Seeds]
  /\ last = Last("input", "na", "na", 0, FALSE)
  /\ faults = 0

ParamsEncode ==
  /\ last.op = "input"
  /\ \E bl \in Params_encode(meta) : db' = [bl |-> bl]
  /\ last' = Last("encode", "na", "na", 0, FALSE)
  /\ UNCHANGED <<up, alloc, meta, faults>>

ParamsDecode ==
  /\ last.op = "encode"
  /\ meta' = Params_decode(db.bl)
  /\ last' = Last("decode", "na", "na", 0, FALSE)
  /\ UNCHANGED <<up, db, alloc, faults>>

NextHitSet == ParamsEncode \/ ParamsDecode

SpecHitSet == InitHitSet /\ [][NextHitSet]_vars

\* whether am = bm * 10^k
RECURSIVE EqScaled(_, _, _)
EqScaled(am, bm, k) ==
  IF k = 0 THEN am = bm
  ELSE am % 10 = 0 /\ EqScaled(am \div 10, bm, k - 1)

\* whether two decimals are the same value
SameValue(a, b) ==
  IF a.e <= b.e THEN EqScaled(a.m, b.m, b.e - a.e)
  ELSE EqScaled(b.m, a.m, a.e - b.e)

\* C25: decoding what Params::encode wrote gives the target_size and seed
\* encoded and a false-positive probability equal, to the millionth, to the
\* one encoded.
C25_ParamsRoundTrip ==
  last.op = "encode" =>
    /\ Params_decode(db.bl).target_size = meta.target_size
    /\ Params_decode(db.bl).seed = meta.seed
    /\ SameValue(Params_decode(db.bl).false_positive, meta.false_positive)

=============================================================================
